---------------------------- MODULE Spec2Model ----------------------------
(***************************************************************************)
(* Step-sequencing and report-synthesis engine of Joystick.c:              *)
(* the step tables, the three step executors, the echo throttle and the    *)
(* phase dispatch of GetNextReport.                                        *)
(***************************************************************************)
EXTENDS Integers, Sequences, FiniteSets, TLC

VARIABLES
    phase,        \* int phase
    step_num,     \* int step_num
    loop_num,     \* int loop_num
    egg_slot,     \* int egg_slot
    echoes,       \* int echoes
    last_report,  \* USB_JoystickReport_Input_t last_report
    ReportData,   \* the report the last GetNextReport call handed to HID_Task
    calls,        \* history: number of GetNextReport calls made so far
    completions,  \* history: number of times phase 4 has completed
    fetch,        \* history: the last call ran an executor (was not a replay)
    cur,          \* history: the step read by the most recent executor call
    held,         \* history: consecutive calls that returned the current step
    trace,        \* history: step indices read in the current phase run
    synth,        \* history: report returned by the most recent non-replay call
    cfg,          \* executor bench: the executor under test and its arguments
    shadow        \* executor bench: a second machine run side by side

vars == <<phase, step_num, loop_num, egg_slot, echoes, last_report, ReportData,
          calls, completions, fetch, cur, held, trace, synth, cfg, shadow>>

-----------------------------------------------------------------------------
(* Bounds of the model *)

\* history counter `calls` stops counting here
MaxCalls == 352
\* history counter `completions` stops counting here
MaxCompletions == 6
\* history counter `held` stops counting here (no step lasts this long)
MaxHeld == 700
\* executor bench: longest synthetic table
MaxSize == 4
\* executor bench: largest repetition count (besides the firmware's 55)
MaxIts == 3
\* executor bench: durations of the synthetic tables are 0..MaxDuration
MaxDuration == 2

-----------------------------------------------------------------------------
(* Joystick.h: stick range, hat, button bits *)

STICK_MIN == 0
STICK_CENTER == 128
STICK_MAX == 255
HAT_CENTER == 8

\* A button mask is the set of its bits; | is set union, 0 is the empty set.
SWITCH_B == {"B"}
SWITCH_A == {"A"}
SWITCH_X == {"X"}
SWITCH_L == {"L"}
SWITCH_R == {"R"}
SWITCH_PLUS == {"PLUS"}
NoButtons == {}

BUTTON_DURATION == 10

\* Step_t initialiser {Button, LX, LY, Duration}
Step(b, x, y, d) == [Button |-> b, LX |-> x, LY |-> y, Duration |-> d]

-----------------------------------------------------------------------------
(* Step tables *)

SyncController == <<
    Step(NoButtons, STICK_CENTER, STICK_CENTER, 75),
    Step(SWITCH_L \cup SWITCH_R, STICK_CENTER, STICK_CENTER, BUTTON_DURATION),
    Step(NoButtons, STICK_CENTER, STICK_CENTER, 75),
    Step(SWITCH_L \cup SWITCH_R, STICK_CENTER, STICK_CENTER, BUTTON_DURATION),
    Step(NoButtons, STICK_CENTER, STICK_CENTER, 75),
    Step(SWITCH_A, STICK_CENTER, STICK_CENTER, BUTTON_DURATION),
    Step(NoButtons, STICK_CENTER, STICK_CENTER, 75),
    Step(SWITCH_A, STICK_CENTER, STICK_CENTER, BUTTON_DURATION) >>

Recall == <<
    Step(NoButtons, STICK_CENTER, STICK_CENTER, 75),
    Step(SWITCH_X, STICK_CENTER, STICK_CENTER, BUTTON_DURATION),
    Step(NoButtons, STICK_CENTER, STICK_CENTER, 75),
    Step(SWITCH_A, STICK_CENTER, STICK_CENTER, BUTTON_DURATION),
    Step(NoButtons, STICK_CENTER, STICK_CENTER, 300),
    Step(NoButtons, 170, STICK_CENTER, 25),
    Step(NoButtons, STICK_CENTER, STICK_CENTER, 75),
    Step(SWITCH_A, STICK_CENTER, STICK_CENTER, BUTTON_DURATION),
    Step(NoButtons, STICK_CENTER, STICK_CENTER, 75),
    Step(SWITCH_A, STICK_CENTER, STICK_CENTER, BUTTON_DURATION),
    Step(NoButtons, STICK_CENTER, STICK_CENTER, 300) >>

BikeBig == <<
    Step(NoButtons, STICK_MAX, STICK_CENTER, 75),
    Step(SWITCH_B, STICK_MAX, STICK_CENTER, BUTTON_DURATION) >>

GetEgg == <<
    Step(NoButtons, STICK_CENTER, STICK_CENTER, 300),
    Step(SWITCH_PLUS, STICK_CENTER, STICK_CENTER, BUTTON_DURATION),
    Step(NoButtons, STICK_MIN, STICK_MIN, 300),
    Step(SWITCH_A, STICK_CENTER, STICK_CENTER, BUTTON_DURATION),
    Step(NoButtons, STICK_CENTER, STICK_CENTER, 75),
    Step(SWITCH_A, STICK_CENTER, STICK_CENTER, BUTTON_DURATION),
    Step(NoButtons, STICK_CENTER, STICK_CENTER, 600),
    Step(SWITCH_B, STICK_CENTER, STICK_CENTER, BUTTON_DURATION),
    Step(NoButtons, STICK_CENTER, STICK_CENTER, 200),
    Step(SWITCH_A, STICK_CENTER, STICK_CENTER, BUTTON_DURATION),
    Step(NoButtons, STICK_CENTER, STICK_CENTER, 75),
    Step(SWITCH_B, STICK_CENTER, STICK_CENTER, BUTTON_DURATION),
    Step(NoButtons, STICK_CENTER, STICK_CENTER, 300),
    Step(NoButtons, STICK_CENTER, STICK_MAX, 25),
    Step(NoButtons, STICK_CENTER, STICK_CENTER, 75),
    Step(SWITCH_A, STICK_CENTER, STICK_CENTER, BUTTON_DURATION),
    Step(NoButtons, STICK_CENTER, STICK_CENTER, 300),
    Step(SWITCH_A, STICK_CENTER, STICK_CENTER, BUTTON_DURATION),
    Step(NoButtons, STICK_CENTER, STICK_CENTER, 200),
    Step(SWITCH_A, STICK_CENTER, STICK_CENTER, BUTTON_DURATION),
    Step(NoButtons, STICK_CENTER, STICK_CENTER, 200),
    Step(SWITCH_PLUS, STICK_CENTER, STICK_CENTER, BUTTON_DURATION) >>

-----------------------------------------------------------------------------
(* Reports *)

\* a zero-filled USB_JoystickReport_Input_t (static storage, memset 0)
ZeroReport ==
    [Button |-> NoButtons, LX |-> 0, LY |-> 0, RX |-> 0, RY |-> 0, HAT |-> 0]

\* the empty report without HAT = HAT_CENTER: the hat left at memset's 0
EmptyReport_NoHat ==
    [Button |-> NoButtons, LX |-> STICK_CENTER, LY |-> STICK_CENTER,
     RX |-> STICK_CENTER, RY |-> STICK_CENTER, HAT |-> 0]

\* "Prepare an empty report"
EmptyReport ==
    [Button |-> NoButtons, LX |-> STICK_CENTER, LY |-> STICK_CENTER,
     RX |-> STICK_CENTER, RY |-> STICK_CENTER, HAT |-> HAT_CENTER]

-----------------------------------------------------------------------------
(* Step executors.  m is the machine: the globals phase, step_num,         *)
(* loop_num, egg_slot, echoes, last_report and the caller's ReportData.    *)
(* StepData[i] of the C code is StepData[i + 1] here (sequences start at 1)*)

\* ExecuteStep with the echo count one short: echoes = Duration - 1
ExecuteStep_ShortEcho(m, StepData, size) ==
    LET s == StepData[m.step_num + 1]
        w == [m EXCEPT !.ReportData.Button = @ \cup s.Button,
                       !.ReportData.LX = s.LX,
                       !.ReportData.LY = s.LY,
                       !.echoes = s.Duration - 1,
                       !.step_num = @ + 1]
    IN  IF w.step_num >= size
        THEN [w EXCEPT !.step_num = 0, !.phase = @ + 1]
        ELSE w

\* ExecuteStep ending the phase one step early: step_num >= size - 1
ExecuteStep_EarlyEnd(m, StepData, size) ==
    LET s == StepData[m.step_num + 1]
        w == [m EXCEPT !.ReportData.Button = @ \cup s.Button,
                       !.ReportData.LX = s.LX,
                       !.ReportData.LY = s.LY,
                       !.echoes = s.Duration,
                       !.step_num = @ + 1]
    IN  IF w.step_num >= size - 1
        THEN [w EXCEPT !.step_num = 0, !.phase = @ + 1]
        ELSE w

\* ExecuteStep ending the phase one step late: step_num > size
ExecuteStep_LateEnd(m, StepData, size) ==
    LET s == StepData[m.step_num + 1]
        w == [m EXCEPT !.ReportData.Button = @ \cup s.Button,
                       !.ReportData.LX = s.LX,
                       !.ReportData.LY = s.LY,
                       !.echoes = s.Duration,
                       !.step_num = @ + 1]
    IN  IF w.step_num > size
        THEN [w EXCEPT !.step_num = 0, !.phase = @ + 1]
        ELSE w

ExecuteStep(m, StepData, size) ==
    LET s == StepData[m.step_num + 1]
        w == [m EXCEPT !.ReportData.Button = @ \cup s.Button,
                       !.ReportData.LX = s.LX,
                       !.ReportData.LY = s.LY,
                       !.echoes = s.Duration,
                       !.step_num = @ + 1]
    IN  IF w.step_num >= size
        THEN [w EXCEPT !.step_num = 0, !.phase = @ + 1]
        ELSE w

\* ExecuteStepLoop running one pass too many: loop_num > num_its
ExecuteStepLoop_OneMore(m, StepData, size, num_its) ==
    LET s == StepData[m.step_num + 1]
        w == [m EXCEPT !.ReportData.Button = @ \cup s.Button,
                       !.ReportData.LX = s.LX,
                       !.ReportData.LY = s.LY,
                       !.echoes = s.Duration,
                       !.step_num = @ + 1]
    IN  IF w.step_num >= size
        THEN LET x == [w EXCEPT !.step_num = 0, !.loop_num = @ + 1]
             IN  IF x.loop_num > num_its
                 THEN [x EXCEPT !.loop_num = 0, !.phase = @ + 1]
                 ELSE x
        ELSE w

\* ExecuteStepLoop testing the count for equality: loop_num == num_its
ExecuteStepLoop_Equal(m, StepData, size, num_its) ==
    LET s == StepData[m.step_num + 1]
        w == [m EXCEPT !.ReportData.Button = @ \cup s.Button,
                       !.ReportData.LX = s.LX,
                       !.ReportData.LY = s.LY,
                       !.echoes = s.Duration,
                       !.step_num = @ + 1]
    IN  IF w.step_num >= size
        THEN LET x == [w EXCEPT !.step_num = 0, !.loop_num = @ + 1]
             IN  IF x.loop_num = num_its
                 THEN [x EXCEPT !.loop_num = 0, !.phase = @ + 1]
                 ELSE x
        ELSE w

ExecuteStepLoop(m, StepData, size, num_its) ==
    LET s == StepData[m.step_num + 1]
        w == [m EXCEPT !.ReportData.Button = @ \cup s.Button,
                       !.ReportData.LX = s.LX,
                       !.ReportData.LY = s.LY,
                       !.echoes = s.Duration,
                       !.step_num = @ + 1]
    IN  IF w.step_num >= size
        THEN LET x == [w EXCEPT !.step_num = 0, !.loop_num = @ + 1]
             IN  IF x.loop_num >= num_its
                 THEN [x EXCEPT !.loop_num = 0, !.phase = @ + 1]
                 ELSE x
        ELSE w

\* ExecuteStepPartialLoop jumping back to loop_start + 1
ExecuteStepPartialLoop_JumpPastStart(m, StepData, size, loop_start, loop_end, num_its) ==
    LET s == StepData[m.step_num + 1]
        w == [m EXCEPT !.ReportData.Button = @ \cup s.Button,
                       !.ReportData.LX = s.LX,
                       !.ReportData.LY = s.LY,
                       !.echoes = s.Duration,
                       !.step_num = @ + 1]
        x == IF w.step_num = loop_end /\ w.loop_num < num_its - 1
             THEN [w EXCEPT !.step_num = loop_start + 1, !.loop_num = @ + 1]
             ELSE w
    IN  IF x.step_num >= size
        THEN [x EXCEPT !.step_num = 0, !.loop_num = 0, !.phase = @ + 1]
        ELSE x

\* ExecuteStepPartialLoop repeating once too often: loop_num < num_its
ExecuteStepPartialLoop_OneMore(m, StepData, size, loop_start, loop_end, num_its) ==
    LET s == StepData[m.step_num + 1]
        w == [m EXCEPT !.ReportData.Button = @ \cup s.Button,
                       !.ReportData.LX = s.LX,
                       !.ReportData.LY = s.LY,
                       !.echoes = s.Duration,
                       !.step_num = @ + 1]
        x == IF w.step_num = loop_end /\ w.loop_num < num_its
             THEN [w EXCEPT !.step_num = loop_start, !.loop_num = @ + 1]
             ELSE w
    IN  IF x.step_num >= size
        THEN [x EXCEPT !.step_num = 0, !.loop_num = 0, !.phase = @ + 1]
        ELSE x

\* ExecuteStepPartialLoop leaving loop_num as it is when the phase ends
ExecuteStepPartialLoop_NoReset(m, StepData, size, loop_start, loop_end, num_its) ==
    LET s == StepData[m.step_num + 1]
        w == [m EXCEPT !.ReportData.Button = @ \cup s.Button,
                       !.ReportData.LX = s.LX,
                       !.ReportData.LY = s.LY,
                       !.echoes = s.Duration,
                       !.step_num = @ + 1]
        x == IF w.step_num = loop_end /\ w.loop_num < num_its - 1
             THEN [w EXCEPT !.step_num = loop_start, !.loop_num = @ + 1]
             ELSE w
    IN  IF x.step_num >= size
        THEN [x EXCEPT !.step_num = 0, !.phase = @ + 1]
        ELSE x

ExecuteStepPartialLoop(m, StepData, size, loop_start, loop_end, num_its) ==
    LET s == StepData[m.step_num + 1]
        w == [m EXCEPT !.ReportData.Button = @ \cup s.Button,
                       !.ReportData.LX = s.LX,
                       !.ReportData.LY = s.LY,
                       !.echoes = s.Duration,
                       !.step_num = @ + 1]
        x == IF w.step_num = loop_end /\ w.loop_num < num_its - 1
             THEN [w EXCEPT !.step_num = loop_start, !.loop_num = @ + 1]
             ELSE w
    IN  IF x.step_num >= size
        THEN [x EXCEPT !.step_num = 0, !.loop_num = 0, !.phase = @ + 1]
        ELSE x

-----------------------------------------------------------------------------
(* GetNextReport *)

\* the report buffer reused without the memset and the centring
PrepareReport_Dirty(m) == m

\* memset + centre the sticks and the hat
PrepareReport(m) == [m EXCEPT !.ReportData = EmptyReport]

\* the replay branch without its echoes--
EchoReport_NoDecrement(m) == [m EXCEPT !.ReportData = m.last_report]

\* the replay branch without its memcpy: the empty report goes out
EchoReport_NoCopy(m) == [m EXCEPT !.echoes = @ - 1]

\* "Repeat ECHOES times the last report"
EchoReport(m) == [m EXCEPT !.ReportData = m.last_report, !.echoes = @ - 1]

\* the dispatch passing egg_slot, not egg_slot + 1, as GetEgg's num_its
MainProcedure_SlotCount(m) ==
    IF m.phase = 0 THEN ExecuteStep(m, SyncController, 8)
    ELSE IF m.phase = 1
         THEN ExecuteStepPartialLoop(m, GetEgg, 22, 13, 15, m.egg_slot)
    ELSE IF m.phase = 2 THEN ExecuteStep(m, Recall, 11)
    ELSE IF m.phase = 3 THEN ExecuteStepLoop(m, BikeBig, 2, 55)
    ELSE IF m.phase = 4 THEN ExecuteStep(m, Recall, 11)
    ELSE m

\* the dispatch without its last branch, else if (phase == 4)
MainProcedure_NoPhaseFour(m) ==
    IF m.phase = 0 THEN ExecuteStep(m, SyncController, 8)
    ELSE IF m.phase = 1
         THEN ExecuteStepPartialLoop(m, GetEgg, 22, 13, 15, m.egg_slot + 1)
    ELSE IF m.phase = 2 THEN ExecuteStep(m, Recall, 11)
    ELSE IF m.phase = 3 THEN ExecuteStepLoop(m, BikeBig, 2, 55)
    ELSE m

\* "Main Procedure": the if / else-if chain over phase
MainProcedure(m) ==
    IF m.phase = 0 THEN ExecuteStep(m, SyncController, 8)
    ELSE IF m.phase = 1
         THEN ExecuteStepPartialLoop(m, GetEgg, 22, 13, 15, m.egg_slot + 1)
    ELSE IF m.phase = 2 THEN ExecuteStep(m, Recall, 11)
    ELSE IF m.phase = 3 THEN ExecuteStepLoop(m, BikeBig, 2, 55)
    ELSE IF m.phase = 4 THEN ExecuteStep(m, Recall, 11)
    ELSE m

\* the wrap restarting from the sync phase: phase = 0
RepeatMainProcedure_Restart(m) ==
    IF m.phase = 5
    THEN [m EXCEPT !.phase = 0, !.egg_slot = (@ + 1) % 5]
    ELSE m

\* the wrap left out: phase stays 5 after the second Recall
RepeatMainProcedure_NoWrap(m) == m

\* the wrap leaving the slot counter alone
RepeatMainProcedure_KeepSlot(m) ==
    IF m.phase = 5
    THEN [m EXCEPT !.phase = 1]
    ELSE m

\* the wrap going back to the first entry of the phase list
RepeatMainProcedure_FromSync(m) ==
    IF m.phase = 5
    THEN [m EXCEPT !.phase = 0, !.step_num = 0, !.egg_slot = (@ + 1) % 5]
    ELSE m

\* "Repeat Main Procedure"
RepeatMainProcedure(m) ==
    IF m.phase = 5
    THEN [m EXCEPT !.phase = 1, !.egg_slot = (@ + 1) % 5]
    ELSE m

\* the report cached before the executor overlaid it
PrepareEcho_Neutral(m) == [m EXCEPT !.last_report = EmptyReport]

\* "Prepare to echo this report"
PrepareEcho(m) == [m EXCEPT !.last_report = m.ReportData]

\* the replay test off by one: echoes >= 0
Echoing_Inclusive(m) == m.echoes >= 0

\* if (echoes > 0)
Echoing(m) == m.echoes > 0

\* the whole of GetNextReport, as a function of the machine before the call
NextReport(m) ==
    IF Echoing(m)
    THEN EchoReport(PrepareReport(m))
    ELSE PrepareEcho(RepeatMainProcedure(MainProcedure(PrepareReport(m))))

-----------------------------------------------------------------------------
(* State *)

Machine ==
    [phase |-> phase, step_num |-> step_num, loop_num |-> loop_num,
     egg_slot |-> egg_slot, echoes |-> echoes, last_report |-> last_report,
     ReportData |-> ReportData]

\* the globals as initialised at their definitions
InitMachine ==
    [phase |-> 0, step_num |-> 0, loop_num |-> 0, egg_slot |-> 0,
     echoes |-> 0, last_report |-> ZeroReport, ReportData |-> ZeroReport]

NoStep == [phase |-> -1, idx |-> -1, dur |-> 0, last |-> TRUE]

\* the table an executor reads in phase p of the firmware
Table(p) ==
    IF p = 0 THEN SyncController
    ELSE IF p = 1 THEN GetEgg
    ELSE IF p = 3 THEN BikeBig
    ELSE Recall

Program == [mode |-> "Program", size |-> 0, loop_start |-> 0, loop_end |-> 0,
            num_its |-> 0, pat |-> 0]

SetMachine(n) ==
    /\ phase' = n.phase
    /\ step_num' = n.step_num
    /\ loop_num' = n.loop_num
    /\ egg_slot' = n.egg_slot
    /\ echoes' = n.echoes
    /\ last_report' = n.last_report
    /\ ReportData' = n.ReportData

\* the cursor an executor moves on every call it runs
Cursor(m) == <<m.phase, m.step_num, m.loop_num>>

\* history of a call that took machine m to machine n: a step was read iff
\* the cursor moved, and it was read at StepData[m.step_num] of table tbl
Observe(m, n, tbl) ==
    /\ calls' = IF calls < MaxCalls THEN calls + 1 ELSE calls
    /\ fetch' = (Cursor(n) # Cursor(m))
    /\ IF Cursor(n) = Cursor(m)
       THEN /\ held' = IF held < MaxHeld THEN held + 1 ELSE held
            /\ UNCHANGED <<cur, trace, synth, completions>>
       ELSE /\ held' = 1
            /\ cur' = [phase |-> m.phase, idx |-> m.step_num,
                       dur |-> tbl[m.step_num + 1].Duration,
                       last |-> n.phase # m.phase]
            /\ trace' = IF cur.last THEN <<m.step_num>>
                        ELSE Append(trace, m.step_num)
            /\ synth' = n.ReportData
            /\ completions' =
                 IF m.phase = 4 /\ n.phase # 4 /\ completions < MaxCompletions
                 THEN completions + 1 ELSE completions

Init ==
    /\ phase = 0
    /\ step_num = 0
    /\ loop_num = 0
    /\ egg_slot = 0
    /\ echoes = 0
    /\ last_report = ZeroReport
    /\ ReportData = ZeroReport
    /\ calls = 0
    /\ completions = 0
    /\ fetch = FALSE
    /\ cur = NoStep
    /\ held = 0
    /\ trace = << >>
    /\ synth = ZeroReport
    /\ cfg = Program
    /\ shadow = InitMachine

\* HID_Task, IN endpoint ready: one call of GetNextReport
GetNextReport ==
    LET m == Machine
        n == NextReport(m)
    IN  /\ cfg.mode = "Program"
        /\ SetMachine(n)
        /\ Observe(m, n, Table(m.phase))
        /\ UNCHANGED <<cfg, shadow>>

Next == GetNextReport

Spec == Init /\ [][Next]_vars

\* main's for (;;) calls HID_Task, and with it GetNextReport, again and again
SpecLive == Init /\ [][Next]_vars /\ WF_vars(GetNextReport)

-----------------------------------------------------------------------------
(* Executor bench: one executor applied to arguments drawn from small sets, *)
(* driven through the same echo throttle as the firmware.  Phase 0 is the   *)
(* executor under test; phase 1, the phase after it, is a plain ExecuteStep *)
(* pass over the same table, after which the bench stops.                   *)

\* the firmware's own PartialLoop and FullLoop arguments
GetEggArgs(n) ==
    [size |-> 22, loop_start |-> 13, loop_end |-> 15, num_its |-> n, pat |-> 0]
BikeBigArgs ==
    [size |-> 2, loop_start |-> 0, loop_end |-> 0, num_its |-> 55, pat |-> 0]

Args(sz, ls, le, n, p) ==
    [size |-> sz, loop_start |-> ls, loop_end |-> le, num_its |-> n, pat |-> p]

WithMode(mode, a) ==
    [mode |-> mode, size |-> a.size, loop_start |-> a.loop_start,
     loop_end |-> a.loop_end, num_its |-> a.num_its, pat |-> a.pat]

OnceArgs ==
    {Args(sz, 0, 0, 1, p) : sz \in 1..MaxSize, p \in 0..MaxDuration}

FullLoopArgs ==
    {Args(sz, 0, 0, n, p) : sz \in 1..MaxSize, n \in 1..MaxIts,
                            p \in 0..MaxDuration}
      \cup {BikeBigArgs}

PartialLoopArgs ==
    {a \in {Args(sz, ls, le, n, p) :
               sz \in 2..MaxSize, ls \in 0..MaxSize, le \in 1..MaxSize,
               n \in 1..MaxIts, p \in 0..MaxDuration} :
        a.loop_start < a.loop_end /\ a.loop_end < a.size}

PairArgs ==
    {a \in PartialLoopArgs : a.num_its = 1} \cup {GetEggArgs(1)}

\* the looping executors with a repetition count of 0
ZeroFullLoopArgs ==
    {Args(sz, 0, 0, 0, p) : sz \in 1..MaxSize, p \in 0..MaxDuration}

ZeroPartialLoopArgs ==
    {Args(a.size, a.loop_start, a.loop_end, 0, a.pat) : a \in PairArgs}

BenchConfigs ==
    {WithMode("Once", a) : a \in OnceArgs}
      \cup {WithMode("FullLoop", a) : a \in FullLoopArgs}
      \cup {WithMode("PartialLoop", a) : a \in PartialLoopArgs}
      \cup {WithMode("Pair", a) : a \in PairArgs}
      \cup {WithMode("ZeroFullLoop", a) : a \in ZeroFullLoopArgs}
      \cup {WithMode("ZeroPartialLoop", a) : a \in ZeroPartialLoopArgs}

\* the table of a bench run: GetEgg for the 22-step runs, else a synthetic
\* table whose step i is recognisable (LX = i) and lasts (i + pat) mod
\* (MaxDuration + 1) ticks, so that durations 0, 1, 2, ... all occur
BenchData(c) ==
    IF c.size = 22 THEN GetEgg
    ELSE [i \in 1..c.size |->
            Step(IF i % 2 = 0 THEN SWITCH_A ELSE NoButtons,
                 i - 1, STICK_CENTER, (i - 1 + c.pat) % (MaxDuration + 1))]

BenchProcedure(m, c) ==
    IF m.phase = 0 /\ c.mode \in {"FullLoop", "ZeroFullLoop"}
    THEN ExecuteStepLoop(m, BenchData(c), c.size, c.num_its)
    ELSE IF m.phase = 0 /\ c.mode \in {"PartialLoop", "Pair", "ZeroPartialLoop"}
    THEN ExecuteStepPartialLoop(m, BenchData(c), c.size,
                                c.loop_start, c.loop_end, c.num_its)
    ELSE ExecuteStep(m, BenchData(c), c.size)

\* GetNextReport with the bench's dispatch in place of "Main Procedure"
BenchReport(m, c) ==
    IF Echoing(m)
    THEN EchoReport(PrepareReport(m))
    ELSE PrepareEcho(RepeatMainProcedure(BenchProcedure(PrepareReport(m), c)))

\* the side-by-side machine of a Pair run: plain ExecuteStep in every phase
ShadowReport(m, c) ==
    IF Echoing(m)
    THEN EchoReport(PrepareReport(m))
    ELSE PrepareEcho(RepeatMainProcedure(
             ExecuteStep(PrepareReport(m), BenchData(c), c.size)))

\* the side-by-side machine of a zero-count run: the same executor, num_its = 1
OneItReport(m, c) == BenchReport(m, [c EXCEPT !.num_its = 1])

InitBench ==
    /\ phase = 0
    /\ step_num = 0
    /\ loop_num = 0
    /\ egg_slot = 0
    /\ echoes = 0
    /\ last_report = ZeroReport
    /\ ReportData = ZeroReport
    /\ calls = 0
    /\ completions = 0
    /\ fetch = FALSE
    /\ cur = NoStep
    /\ held = 0
    /\ trace = << >>
    /\ synth = ZeroReport
    /\ cfg \in BenchConfigs
    /\ shadow = InitMachine

\* one call of the report function on the bench machine
BenchCall ==
    LET m == Machine
        n == BenchReport(m, cfg)
    IN  /\ phase < 2
        /\ SetMachine(n)
        /\ Observe(m, n, BenchData(cfg))
        /\ UNCHANGED cfg

CallOnce ==
    /\ cfg.mode = "Once"
    /\ BenchCall
    /\ UNCHANGED shadow

CallFullLoop ==
    /\ cfg.mode = "FullLoop"
    /\ BenchCall
    /\ UNCHANGED shadow

CallPartialLoop ==
    /\ cfg.mode = "PartialLoop"
    /\ BenchCall
    /\ UNCHANGED shadow

CallPair ==
    /\ cfg.mode = "Pair"
    /\ BenchCall
    /\ shadow' = ShadowReport(shadow, cfg)

CallZeroFullLoop ==
    /\ cfg.mode = "ZeroFullLoop"
    /\ BenchCall
    /\ shadow' = OneItReport(shadow, cfg)

CallZeroPartialLoop ==
    /\ cfg.mode = "ZeroPartialLoop"
    /\ BenchCall
    /\ shadow' = OneItReport(shadow, cfg)

NextBench ==
    \/ CallOnce
    \/ CallFullLoop
    \/ CallPartialLoop
    \/ CallPair
    \/ CallZeroFullLoop
    \/ CallZeroPartialLoop

SpecBench == InitBench /\ [][NextBench]_vars

-----------------------------------------------------------------------------
(* Vocabulary of the properties *)

\* <<a, a + 1, ..., b - 1>>
Range(a, b) == [i \in 1..(b - a) |-> a + i - 1]

RECURSIVE Rep(_, _)
\* s repeated k times
Rep(s, k) == IF k <= 0 THEN << >> ELSE s \o Rep(s, k - 1)

IsPrefix(s, t) == Len(s) <= Len(t) /\ SubSeq(t, 1, Len(s)) = s

\* number of times index k was read in s
Count(k, s) == Cardinality({i \in 1..Len(s) : s[i] = k})

\* the order in which PartialLoop(start, end, n) is meant to read a table
PartialLoopOrder(c) ==
    Range(0, c.loop_start)
      \o Rep(Range(c.loop_start, c.loop_end), c.num_its)
      \o Range(c.loop_end, c.size)

-----------------------------------------------------------------------------
(* Properties checked under Spec, the firmware as compiled *)

\* C1 as stated: a step of duration d >= 1 is returned on exactly d
\* consecutive calls, the fetch and d - 1 replays (refuted: it is d + 1).
C1_Original ==
    (calls > 0 /\ cur.dur >= 1) => held + echoes = cur.dur

\* C1 amended: every step fetched by any executor is returned, unchanged, on
\* exactly Duration + 1 consecutive calls, the fetch and Duration replays,
\* and the call after those is the next fetch.
C1_EchoStretch ==
    calls > 0 =>
        /\ ReportData = synth
        /\ held >= 1
        /\ held + echoes = cur.dur + 1

\* a 75-tick BikeBig step, read by ExecuteStepLoop, after its 76th call
C1_Witness ==
    calls > 0 /\ cur.phase = 3 /\ cur.dur = 75 /\ echoes = 0 /\ held = 76

\* C2 as stated: SyncController takes 340 calls, and call 341 fetches
\* GetEgg[0] (refuted: call 341 is a replay of SyncController[7]).
C2_Original ==
    calls = 341 => (fetch /\ cur.phase = 1 /\ cur.idx = 0)

\* C2 amended: from the initial state SyncController accounts for exactly 348
\* calls (340 replays and the 8 fetches), call 349 fetches GetEgg[0], and on
\* those 348 calls Button is non-zero exactly on the calls of steps 1, 3, 5, 7.
C2_SyncTicks ==
    /\ (calls \in 1..348) =>
          /\ cur.phase = 0
          /\ (ReportData.Button # NoButtons <=> cur.idx \in {1, 3, 5, 7})
    /\ (calls = 348) => (phase = 1 /\ echoes = 0 /\ cur.idx = 7)
    /\ (calls = 349) => (fetch /\ cur.phase = 1 /\ cur.idx = 0)

C2_Witness ==
    calls = 349 /\ fetch /\ cur.phase = 1 /\ cur.idx = 0

\* C6: whenever phase 4 completes, the same call sets phase to 1 and
\* egg_slot to (egg_slot + 1) mod 5; phase is never left at 5; egg_slot reads
\* 0, 1, 2, 3, 4, 0 across successive completions.
C6_PhaseCycling ==
    /\ [][(phase = 4 /\ phase' # 4) =>
              (phase' = 1 /\ egg_slot' = (egg_slot + 1) % 5)]_vars
    /\ [](phase \in 0..4)
    /\ [](completions < MaxCompletions => egg_slot = completions % 5)

\* phase 4 has completed five times and the slot counter reads 0 again
C6_Witness ==
    completions = 5 /\ egg_slot = 0 /\ phase = 1 /\ cur.phase = 4

\* C7 as stated: phase 1 with egg_slot = 4 makes exactly 10 more reads than
\* one linear pass of the 22 steps (refuted: it makes 8 more, 30 in all).
C7_Original ==
    (calls > 0 /\ cur.phase = 1 /\ egg_slot = 4 /\ cur.last) =>
        Len(trace) = 22 + 10

\* C7 amended: in phase 1 with egg_slot = 4, GetEgg[13] and GetEgg[14] are
\* each read five times before GetEgg[15] is read, and the phase makes
\* exactly 8 more reads than one linear pass of the 22 steps (30 in all).
C7_GetEggFiveTimes ==
    (calls > 0 /\ cur.phase = 1 /\ egg_slot = 4) =>
        /\ Count(13, trace) <= 5
        /\ Count(14, trace) <= 5
        /\ (Count(15, trace) > 0 =>
               Count(13, trace) = 5 /\ Count(14, trace) = 5)
        /\ Len(trace) <= 22 + 8
        /\ (cur.last <=> Len(trace) = 22 + 8)

\* the fifth pass through GetEgg has just read its last step
C7_Witness ==
    /\ cur.phase = 1 /\ egg_slot = 4 /\ cur.last /\ cur.idx = 21
    /\ Len(trace) = 30 /\ Count(13, trace) = 5 /\ Count(14, trace) = 5

\* C10: after every non-replay call last_report is the report that call
\* returned (the call that wraps phase 5 to 1 included), and every replay
\* returns the report of the most recent non-replay call.
C10_CachedReport ==
    calls > 0 =>
        /\ (fetch => last_report = ReportData)
        /\ (~fetch => ReportData = synth /\ last_report = synth)

\* a replay after the call on which phase wrapped from 5 to 1
C10_Witness ==
    /\ ~fetch /\ cur.phase = 4 /\ cur.last /\ phase = 1
    /\ ReportData = synth /\ ReportData.LX = STICK_CENTER

-----------------------------------------------------------------------------
(* Properties checked under SpecBench, the executors on drawn arguments *)

\* C3: ExecuteStepPartialLoop with 0 <= start < end < size, n >= 1, entered
\* at step_num = 0, loop_num = 0, reads 0..start-1 once each, then
\* start..end-1 n times over, then end..size-1 once each, and only then
\* increments phase.
C3_PartialLoopBounds ==
    (cfg.mode = "PartialLoop" /\ cur.phase = 0) =>
        /\ IsPrefix(trace, PartialLoopOrder(cfg))
        /\ (cur.last <=> trace = PartialLoopOrder(cfg))
        /\ \A i \in cfg.loop_start..(cfg.loop_end - 1) :
              (\E k \in cfg.loop_end..(cfg.size - 1) : Count(k, trace) > 0)
                  => Count(i, trace) = cfg.num_its

\* PartialLoop(1, 3, 3) over 4 steps has completed
C3_Witness ==
    /\ cfg.mode = "PartialLoop" /\ cfg.size = 4 /\ cfg.loop_start = 1
    /\ cfg.loop_end = 3 /\ cfg.num_its = 3
    /\ cur.phase = 0 /\ cur.last /\ trace = <<0, 1, 2, 1, 2, 1, 2, 3>>

\* C4: ExecuteStepLoop over L steps with n >= 1 repetitions reads n passes
\* 0..L-1, n * L reads in all, before it increments phase, and loop_num is 0
\* when it does (110 reads for L = 2, n = 55).
C4_FullLoopCount ==
    (cfg.mode = "FullLoop" /\ cur.phase = 0) =>
        /\ IsPrefix(trace, Rep(Range(0, cfg.size), cfg.num_its))
        /\ (cur.last <=> Len(trace) = cfg.num_its * cfg.size)
        /\ (cur.last => loop_num = 0 /\ step_num = 0)
        /\ (~cur.last => loop_num < cfg.num_its /\ phase = 0)

\* the BikeBig arguments: 2 steps, 55 repetitions, 110 reads
C4_Witness ==
    /\ cfg.mode = "FullLoop" /\ cfg.size = 2 /\ cfg.num_its = 55
    /\ cur.phase = 0 /\ cur.last /\ Len(trace) = 110 /\ loop_num = 0
    /\ phase = 1

\* C5: ExecuteStep over L >= 1 steps, entered at step_num = 0, reads indices
\* 0, 1, ..., L-1 once each in that order, and the read after those is step 0
\* of the next phase.
C5_LinearProgression ==
    /\ []((cfg.mode = "Once" /\ cur.phase = 0) =>
             /\ IsPrefix(trace, Range(0, cfg.size))
             /\ (cur.last <=> trace = Range(0, cfg.size)))
    /\ [][(cfg.mode = "Once" /\ fetch' /\ cur.phase = 0 /\ cur.last) =>
             (cur'.phase = 1 /\ cur'.idx = 0 /\ trace' = <<0>>)]_vars
    /\ [][(cfg.mode = "Once" /\ fetch' /\ cur.phase = 0 /\ ~cur.last) =>
             (cur'.phase = 0 /\ cur'.idx = cur.idx + 1)]_vars

\* the read after a 4-step linear pass: step 0 of the next phase
C5_Witness ==
    /\ cfg.mode = "Once" /\ cfg.size = 4
    /\ fetch /\ cur.phase = 1 /\ cur.idx = 0 /\ trace = <<0>>

\* C8: ExecuteStepPartialLoop(.., 22, 13, 15, 1) run side by side with
\* ExecuteStep(.., 22) leaves the same report, echoes, step_num and phase
\* after every call, and loop_num stays 0 (likewise for every start < end <
\* size with n = 1).
C8_PartialLoopOnceIsLinear ==
    cfg.mode = "Pair" =>
        /\ shadow = Machine
        /\ loop_num = 0

\* the 22-step pair has passed loop_end = 15 and finished the phase
C8_Witness ==
    /\ cfg.mode = "Pair" /\ cfg.size = 22 /\ cfg.loop_start = 13
    /\ cfg.loop_end = 15 /\ cfg.num_its = 1
    /\ cur.phase = 0 /\ cur.last /\ cur.idx = 21 /\ shadow = Machine
    /\ Len(trace) = 22

\* C9: when the step read by one call has Duration 0, the very next call
\* runs an executor and reads the step the cursor was left on.
C9_ZeroDuration ==
    [][(calls > 0 /\ fetch /\ cur.dur = 0) =>
          (fetch' /\ held = 1 /\ cur'.phase = phase /\ cur'.idx = step_num)]_vars

\* two reads on consecutive calls, the first of a Duration-0 step
C9_Witness ==
    /\ cfg.mode = "PartialLoop" /\ fetch /\ held = 1 /\ Len(trace) >= 2
    /\ BenchData(cfg)[trace[Len(trace) - 1] + 1].Duration = 0
    /\ calls = Len(trace)

-----------------------------------------------------------------------------
(* Invariants of the firmware, checked under Spec *)

\* C11: every report GetNextReport returns, on fetch calls and on replays,
\* from the first call on, has RX = RY = STICK_CENTER and HAT = HAT_CENTER.
C11_NeutralRightStickAndHat ==
    calls > 0 =>
        /\ ReportData.RX = STICK_CENTER
        /\ ReportData.RY = STICK_CENTER
        /\ ReportData.HAT = HAT_CENTER

\* the replay that follows the very first call
C11_Witness ==
    /\ calls = 2 /\ ~fetch /\ ReportData.RX = STICK_CENTER
    /\ ReportData.RY = STICK_CENTER /\ ReportData.HAT = HAT_CENTER
    /\ last_report # ZeroReport

\* the number of steps passed to the executor of phase p
SizeOf(p) ==
    IF p = 0 THEN 8
    ELSE IF p = 1 THEN 22
    ELSE IF p = 3 THEN 2
    ELSE 11

\* C12: whenever an executor is about to read StepData[step_num], step_num
\* is in 0 .. length - 1 of the table bound to the current phase (8, 22, 11,
\* 2, 11 for phases 0..4), the first read after a phase change included.
C12_StepIndexInRange ==
    /\ phase \in 0..4
    /\ step_num >= 0
    /\ step_num < SizeOf(phase)
    /\ SizeOf(phase) = Len(Table(phase))

\* about to read the first step of GetEgg, right after the phase wrapped
C12_Witness ==
    /\ phase = 1 /\ step_num = 0 /\ echoes = 0 /\ egg_slot = 2
    /\ cur.phase = 4 /\ cur.idx = 10

\* C13: between calls loop_num is below the repetition count of the current
\* phase (55 in phase 3, egg_slot + 1 in phase 1) and 0 in phases 0, 2, 4.
C13_LoopCounterBelowTarget ==
    /\ loop_num >= 0
    /\ (phase = 3 => loop_num < 55)
    /\ (phase = 1 => loop_num < egg_slot + 1)
    /\ (phase \in {0, 2, 4} => loop_num = 0)

\* the last repetition of the GetEgg loop with the slot counter at 4
C13_Witness ==
    phase = 1 /\ egg_slot = 4 /\ loop_num = 4 /\ step_num = 14

-----------------------------------------------------------------------------
(* Liveness of the firmware, checked under SpecLive *)

\* the last call read the first step of phase p
Entered(p) == fetch /\ cur.phase = p /\ Len(trace) = 1

\* C14: if GetNextReport keeps being called, echoes reaches 0 and a new step
\* is read again and again, and each of phases 1, 2, 3, 4 is entered
\* infinitely often.
C14_RunsForever ==
    /\ []<>(echoes = 0)
    /\ []<>fetch
    /\ \A p \in 1..4 : []<>Entered(p)

\* phase 1 entered again after a whole cycle
C14_Witness ==
    Entered(1) /\ completions = 2 /\ egg_slot = 2

-----------------------------------------------------------------------------
(* Degenerate arguments, checked under SpecBench *)

\* C15: with num_its = 0, ExecuteStepLoop and ExecuteStepPartialLoop each
\* read every index once, in order, and then increment phase with step_num =
\* 0 and loop_num = 0, call for call like the same executor with num_its = 1.
C15_ZeroCountNeverRepeats ==
    cfg.mode \in {"ZeroFullLoop", "ZeroPartialLoop"} =>
        /\ cfg.num_its = 0
        /\ shadow = Machine
        /\ (cur.phase = 0 =>
              /\ IsPrefix(trace, Range(0, cfg.size))
              /\ (cur.last <=> trace = Range(0, cfg.size))
              /\ (cur.last => phase = 1 /\ step_num = 0 /\ loop_num = 0)
              /\ (~cur.last => phase = 0))

\* ExecuteStepLoop with num_its = 0 has finished its single pass of 4 steps
C15_Witness ==
    /\ cfg.mode = "ZeroFullLoop" /\ cfg.size = 4 /\ cfg.num_its = 0
    /\ cur.phase = 0 /\ cur.last /\ trace = <<0, 1, 2, 3>>
    /\ phase = 1 /\ step_num = 0 /\ loop_num = 0 /\ shadow = Machine

-----------------------------------------------------------------------------
(* Behaviour of single calls, checked under Spec *)

\* C16: a call made with echoes > 0 returns a copy of last_report, lowers
\* echoes by exactly 1 and leaves phase, step_num, loop_num, egg_slot and
\* last_report as they were.
C16_EchoTickFrame ==
    [][echoes > 0 =>
          /\ ReportData' = last_report
          /\ echoes' = echoes - 1
          /\ ~fetch'
          /\ UNCHANGED <<phase, step_num, loop_num, egg_slot, last_report>>]_vars

\* a replay of a step that presses buttons, with replays still to come
C16_Witness ==
    /\ ~fetch /\ calls > 1 /\ echoes = 3 /\ ReportData = last_report
    /\ ReportData.Button = SWITCH_L \cup SWITCH_R

\* number of passes through the repeating cycle begun so far (k of C17)
PassNumber == completions + 1

\* C17: during the k-th pass through the cycle phase 1 reads GetEgg[13] and
\* GetEgg[14] exactly ((k - 1) mod 5) + 1 times each, and egg_slot changes
\* on no call but the one that completes phase 4.
C17_SlotSetsRepetitions ==
    /\ []((calls > 0 /\ cur.phase = 1 /\ completions < MaxCompletions) =>
             /\ Count(13, trace) <= ((PassNumber - 1) % 5) + 1
             /\ Count(14, trace) <= ((PassNumber - 1) % 5) + 1
             /\ (cur.last =>
                    /\ Count(13, trace) = ((PassNumber - 1) % 5) + 1
                    /\ Count(14, trace) = ((PassNumber - 1) % 5) + 1))
    /\ [][egg_slot' # egg_slot => (phase = 4 /\ phase' = 1)]_vars

\* the sixth pass: the repetition count is back to 1
C17_Witness ==
    /\ cur.phase = 1 /\ cur.last /\ completions = 5
    /\ Count(13, trace) = 1 /\ Count(14, trace) = 1 /\ Len(trace) = 22

\* the step the most recent executor call read
CurStep == Table(cur.phase)[cur.idx + 1]

\* C18: a call made with echoes = 0 returns the empty report overlaid with
\* the step it read: Button is the step's mask and nothing else, LX and LY
\* are the step's, and echoes is the step's Duration after the call.
C18_FetchOverlay ==
    fetch =>
        /\ ReportData = [EmptyReport EXCEPT !.Button = CurStep.Button,
                                            !.LX = CurStep.LX,
                                            !.LY = CurStep.LY]
        /\ echoes = CurStep.Duration

\* GetEgg[2] has just been read: no buttons, both sticks at STICK_MIN
C18_Witness ==
    /\ fetch /\ cur.phase = 1 /\ cur.idx = 2 /\ echoes = 300
    /\ ReportData.Button = NoButtons /\ ReportData.LX = STICK_MIN
    /\ ReportData.LY = STICK_MIN

\* C19: the initial state has phase = 0 and egg_slot = 0, phase is never 0
\* again once it has left 0, and no SyncController step is read after the
\* first 8 reads (which end with call 348).
C19_SyncRunsOnce ==
    /\ (phase = 0 /\ egg_slot = 0)
    /\ [][phase # 0 => phase' # 0]_vars
    /\ []((phase = 0 \/ cur.phase = 0) =>
             (completions = 0 /\ egg_slot = 0 /\ calls <= 348))

\* phase 4 has completed and the machine is in phase 1, not in phase 0
C19_Witness ==
    completions = 1 /\ phase = 1 /\ egg_slot = 1 /\ cur.phase = 4 /\ cur.last

\* C20: between calls phase is in 0..4, egg_slot in 0..4 and echoes in
\* 0..600, and every call made with echoes = 0 runs an executor: none falls
\* through the dispatch.
C20_RangesAndDispatch ==
    /\ [](phase \in 0..4 /\ egg_slot \in 0..4 /\ echoes \in 0..600)
    /\ [][echoes = 0 => fetch']_vars

\* the longest wait of the tables, in the last slot
C20_Witness ==
    fetch /\ echoes = 600 /\ egg_slot = 4 /\ phase = 1

=============================================================================
